---------------------------- MODULE Spec2Model ----------------------------
(***************************************************************************)
(* Model of the dynamic-schema bordereau consolidation of                  *)
(* src/GeraProposta_GUI.py: BordereauGUI.start_processing, process_files,  *)
(* generate_headers and process_excel_file, together with the worksheet    *)
(* cell semantics they rely on.                                            *)
(*                                                                         *)
(* A source document is described by the cells the code reads: the label   *)
(* column B, the static cells of column F, the category table columns D    *)
(* and E and the summary cells.  Input files are named by integers, the    *)
(* order of the integers being the order of the file names.                *)
(***************************************************************************)
EXTENDS Integers, Sequences, FiniteSets, TLC

(***************************************************************************)
(* Bounds of the model.                                                    *)
(***************************************************************************)
MaxFiles == 3
MaxMarks == 2
MaxStarts == 2

(***************************************************************************)
(* Program constants.                                                      *)
(***************************************************************************)
FIRST_ROW == 24
SCAN_STOP == 100
LABEL_COLUMN == 2
COUNT_COLUMN == 4
VALUE_COLUMN == 5
STATIC_COLUMN == 6
SUMMARY_OFFSET == 2
MONTH_COLUMN == 3
WEEKDAY_COLUMN == 4
FIRST_OUTPUT_ROW == 2

(***************************************************************************)
(* Scalar values of cells.  Every value is a record of the same shape;     *)
(* k is the Python type: "none", "str", "num", "datetime", or "raw" for an *)
(* opaque non-empty, non-date scalar identified by the document and cell   *)
(* it was read from.                                                       *)
(***************************************************************************)
None == [k |-> "none", s |-> "", a |-> 0, b |-> 0, c |-> 0]
Str(s) == [k |-> "str", s |-> s, a |-> 0, b |-> 0, c |-> 0]
Num(n) == [k |-> "num", s |-> "", a |-> n, b |-> 0, c |-> 0]
DateTime(y, m, d) == [k |-> "datetime", s |-> "", a |-> y, b |-> m, c |-> d]
Raw(name, row, col) == [k |-> "raw", s |-> "", a |-> name, b |-> row, c |-> col]

CONVITES == Str("Convites")

\* ITEMS_TO_EXTRACT_STATIC: the row of column F each static output column
\* reads; 0 stands for the None placeholders of columns 3 and 4.
ITEMS_TO_EXTRACT_STATIC == <<1, 5, 0, 0, 7, 3, 15, 13, 9, 11, 17>>

\* SUMMARY_COLUMNS: column number and row offset from the "Convites" row;
\* the entries without a custom offset use summary_row = convites_row + 2.
SUMMARY_COLUMNS ==
    << [col |-> 6, custom |-> FALSE, offset |-> 0],
       [col |-> 8, custom |-> FALSE, offset |-> 0],
       [col |-> 10, custom |-> FALSE, offset |-> 0],
       [col |-> 4, custom |-> FALSE, offset |-> 0],
       [col |-> 5, custom |-> FALSE, offset |-> 0],
       [col |-> 2, custom |-> TRUE, offset |-> 5] >>

MONTHS ==
    << "Janeiro", "Fevereiro", "Março", "Abril", "Maio", "Junho",
       "Julho", "Agosto", "Setembro", "Outubro", "Novembro", "Dezembro" >>

WEEKDAYS ==
    << "Segunda-feira", "Terça-feira", "Quarta-feira",
       "Quinta-feira", "Sexta-feira", "Sábado", "Domingo" >>

STATIC_HEADER_COLUMNS ==
    << "Nº Registo", "Data", "Mês", "Dia da Semana", "Hora",
       "Nome do Espetáculo", "Local", "Atividade", "Classificação Etária",
       "Evento", "Lotação Máxima" >>

SUMMARY_HEADER_COLUMNS ==
    << "Total Bilheteira", "Total Postos TL", "Total Internet",
       "Total de Bilhetes", "Valor Total", "Observação" >>


(***************************************************************************)
(* Source documents.  An entry of the input folder is a record             *)
(*   kind   : "xlsx" for a workbook name the filter of process_files       *)
(*            accepts, "lock" for a "~$..." workbook name, "other" for a   *)
(*            name whose suffix is not ".xlsx";                            *)
(*   sheet  : whether the workbook has the sheet "Folha1";                 *)
(*   labels : the cells of column B that differ from ordinary category     *)
(*            text (row -> value);                                         *)
(*   dates  : the static cells of column F that hold a datetime            *)
(*            (row -> datetime);                                           *)
(*   empty  : the cells <<row, col>> outside column B that hold no value.  *)
(* Every other cell holds a non-empty scalar of its own.                   *)
(***************************************************************************)
Entry(kind, sheet, labels, dates, empty) ==
    [kind |-> kind, sheet |-> sheet, labels |-> labels, dates |-> dates,
     empty |-> empty]

\* sheet.cell(row, col).value / .internal_value of the document called name
CellValue(name, doc, row, col) ==
    IF col = LABEL_COLUMN
    THEN IF row \in DOMAIN doc.labels
         THEN doc.labels[row]
         ELSE Str("B" \o ToString(row))
    ELSE IF <<row, col>> \in doc.empty
         THEN None
         ELSE IF col = STATIC_COLUMN /\ row \in DOMAIN doc.dates
              THEN doc.dates[row]
              ELSE Raw(name, row, col)

\* extract_cell_value(sheet, "F<row>")
extract_cell_value(name, doc, row) == CellValue(name, doc, row, STATIC_COLUMN)

\* Python truth value of a cell value (the test "if category_name:")
Truthy(v) ==
    CASE v.k = "none" -> FALSE
      [] v.k = "str" -> v.s # ""
      [] v.k = "num" -> v.a # 0
      [] OTHER -> TRUE

\* str(value) for the values a category name can take
PyStr(v) ==
    CASE v.k = "str" -> v.s
      [] v.k = "num" -> ToString(v.a)
      [] v.k = "none" -> "None"
      [] OTHER -> "<" \o v.k \o ">"

(***************************************************************************)
(* datetime: strftime("%d-%m-%Y"), .month and .weekday().                  *)
(***************************************************************************)
Pad2(n) == IF n < 10 THEN "0" \o ToString(n) ELSE ToString(n)

format_date_value(value) ==
    Pad2(value.c) \o "-" \o Pad2(value.b) \o "-" \o ToString(value.a)

IsLeap(y) == y % 4 = 0 /\ (y % 100 # 0 \/ y % 400 = 0)

DaysBeforeMonth(y, m) ==
    LET cum == <<0, 31, 59, 90, 120, 151, 181, 212, 243, 273, 304, 334>>
    IN  cum[m] + (IF m > 2 /\ IsLeap(y) THEN 1 ELSE 0)

ToOrdinal(y, m, d) ==
    LET p == y - 1
    IN  p * 365 + (p \div 4) - (p \div 100) + (p \div 400)
        + DaysBeforeMonth(y, m) + d

\* value.weekday(): Monday is 0
Weekday(value) == (ToOrdinal(value.a, value.b, value.c) + 6) % 7

\* MONTHS[value.month - 1]; Python indexes from 0, sequences here from 1
MonthName(value) == MONTHS[(value.b - 1) + 1]

\* WeekdayName with the week taken to start on Sunday
WeekdayNameSundayFirst(value) == WEEKDAYS[((Weekday(value) + 1) % 7) + 1]

\* WEEKDAYS[value.weekday()]
WeekdayName(value) == WEEKDAYS[Weekday(value) + 1]

(***************************************************************************)
(* The output worksheet: the cells created so far, each with its value and *)
(* src, the name of the document whose extraction last stored a value in   *)
(* it (0 for the header row).  src is bookkeeping of the model, not data   *)
(* of the worksheet.                                                       *)
(***************************************************************************)
EmptySheet == [x \in {} |-> [value |-> None, src |-> 0]]

\* output_ws.cell(row, column, value): the cell is created when missing and
\* its value is assigned only when value is not None
WriteCell(ws, row, col, value, name) ==
    LET at == <<row, col>>
        old == IF at \in DOMAIN ws THEN ws[at] ELSE [value |-> None, src |-> 0]
        new == IF value # None THEN [value |-> value, src |-> name] ELSE old
    IN  (at :> new) @@ ws

\* the calls output_ws.cell(row, col, values[1]), output_ws.cell(row, col + 1,
\* values[2]), ... of a loop whose iterations write consecutive columns
WriteCells(ws, row, col, values, name) ==
    LET Old(at) == IF at \in DOMAIN ws THEN ws[at] ELSE [value |-> None, src |-> 0]
        New(at) == IF values[at[2] - col + 1] # None
                   THEN [value |-> values[at[2] - col + 1], src |-> name]
                   ELSE Old(at)
    IN  [at \in {<<row, col + i - 1>> : i \in 1..Len(values)} |-> New(at)] @@ ws

\* output_ws.append(values) on a worksheet whose current row is row - 1
AppendRow(ws, row, values) ==
    [x \in DOMAIN ws \cup {<<row, i>> : i \in 1..Len(values)} |->
        IF x[1] = row /\ x[2] \in 1..Len(values)
        THEN [value |-> values[x[2]], src |-> 0]
        ELSE ws[x]]

(***************************************************************************)
(* generate_headers(file_path)                                             *)
(***************************************************************************)
\* HeaderConvitesRow with the scan running through row 100
HeaderConvitesRowThrough100(doc) ==
    LET found == { row_num \in FIRST_ROW..SCAN_STOP :
                     CellValue(0, doc, row_num, LABEL_COLUMN) = CONVITES }
    IN  IF found = {}
        THEN 0
        ELSE CHOOSE row_num \in found : \A other \in found : row_num <= other

\* the loop "for row_num in range(24, 100)" of generate_headers: the first row
\* of the range whose label equals "Convites"; 0 stands for convites_row = None
HeaderConvitesRow(doc) ==
    LET found == { row_num \in FIRST_ROW..(SCAN_STOP - 1) :
                     CellValue(0, doc, row_num, LABEL_COLUMN) = CONVITES }
    IN  IF found = {}
        THEN 0
        ELSE CHOOSE row_num \in found : \A other \in found : row_num <= other

\* the loop "for row_num in range(24, convites_row + 1)" of generate_headers:
\* "if category_name:" appends category_name and "Valor " + str(category_name)
CategoryHeaders(doc, convites_row) ==
    LET category_names ==
            SelectSeq([i \in 1..(convites_row + 1 - FIRST_ROW) |->
                          CellValue(0, doc, FIRST_ROW + i - 1, LABEL_COLUMN)],
                      Truthy)
    IN  [i \in 1..(2 * Len(category_names)) |->
            IF i % 2 = 1
            THEN category_names[(i + 1) \div 2]
            ELSE Str("Valor " \o PyStr(category_names[i \div 2]))]

StrSeq(labels) == [i \in 1..Len(labels) |-> Str(labels[i])]

\* generate_headers without the check "if convites_row is None"
generate_headers_unchecked(doc) ==
    IF ~doc.sheet
    THEN [ok |-> FALSE, error |-> "sheet", convites_row |-> 0, headers |-> <<>>]
    ELSE [ok |-> TRUE, error |-> "", convites_row |-> HeaderConvitesRow(doc),
          headers |->
              StrSeq(STATIC_HEADER_COLUMNS)
              \o CategoryHeaders(doc, HeaderConvitesRow(doc))
              \o StrSeq(SUMMARY_HEADER_COLUMNS)]

\* result of generate_headers: ok = FALSE when it raises ValueError
generate_headers(doc) ==
    LET convites_row == HeaderConvitesRow(doc)
    IN  IF ~doc.sheet
        THEN [ok |-> FALSE, error |-> "sheet", convites_row |-> 0,
              headers |-> <<>>]
        ELSE IF convites_row = 0
        THEN [ok |-> FALSE, error |-> "convites", convites_row |-> 0,
              headers |-> <<>>]
        ELSE [ok |-> TRUE, error |-> "", convites_row |-> convites_row,
              headers |->
                  StrSeq(STATIC_HEADER_COLUMNS)
                  \o CategoryHeaders(doc, convites_row)
                  \o StrSeq(SUMMARY_HEADER_COLUMNS)]

(***************************************************************************)
(* process_excel_file(file_path, output_ws, output_row)                    *)
(***************************************************************************)
\* the body of the static loop for one item that is not None
StaticItem(name, doc, ws, output_row, col_index, item) ==
    LET value == extract_cell_value(name, doc, item)
    IN  IF value.k = "datetime"
        THEN WriteCell(
                 WriteCell(
                     WriteCell(ws, output_row, col_index,
                               Str(format_date_value(value)), name),
                     output_row, MONTH_COLUMN, Str(MonthName(value)), name),
                 output_row, WEEKDAY_COLUMN, Str(WeekdayName(value)), name)
        ELSE WriteCell(ws, output_row, col_index, value, name)

\* the loop "for item in ITEMS_TO_EXTRACT_STATIC", entered at item i
RECURSIVE ExtractStatic(_, _, _, _, _, _)
ExtractStatic(name, doc, ws, output_row, col_index, i) ==
    IF i > Len(ITEMS_TO_EXTRACT_STATIC)
    THEN [ws |-> ws, col_index |-> col_index]
    ELSE IF ITEMS_TO_EXTRACT_STATIC[i] = 0
         THEN ExtractStatic(name, doc, ws, output_row, col_index + 1, i + 1)
         ELSE ExtractStatic(name, doc,
                  StaticItem(name, doc, ws, output_row, col_index,
                             ITEMS_TO_EXTRACT_STATIC[i]),
                  output_row, col_index + 1, i + 1)

\* ExtractConvitesRow with the scan starting one row below the first
\* category row
ExtractConvitesRowBelowFirst(doc) ==
    LET found == { row_num \in (FIRST_ROW + 1)..(SCAN_STOP - 1) :
                     CellValue(0, doc, row_num, LABEL_COLUMN) = CONVITES }
    IN  IF found = {}
        THEN 0
        ELSE CHOOSE row_num \in found : \A other \in found : row_num <= other

\* the loop "for row_num in range(24, 100)" of process_excel_file
ExtractConvitesRow(doc) ==
    LET found == { row_num \in FIRST_ROW..(SCAN_STOP - 1) :
                     CellValue(0, doc, row_num, LABEL_COLUMN) = CONVITES }
    IN  IF found = {}
        THEN 0
        ELSE CHOOSE row_num \in found : \A other \in found : row_num <= other

\* CategoryValues with the rows skipped whose category name is empty, as
\* generate_headers skips them
CategoryValuesOfNamedRows(name, doc, convites_row) ==
    LET rows == SelectSeq([i \in 1..(convites_row + 1 - FIRST_ROW) |->
                              FIRST_ROW + i - 1],
                          LAMBDA r : Truthy(CellValue(0, doc, r, LABEL_COLUMN)))
    IN  [i \in 1..(2 * Len(rows)) |->
            CellValue(name, doc, rows[(i + 1) \div 2],
                      IF i % 2 = 1 THEN COUNT_COLUMN ELSE VALUE_COLUMN)]

\* the values the loop over the category rows writes, in order: d_value and
\* e_value of every row from 24 to convites_row
CategoryValues(name, doc, convites_row) ==
    [i \in 1..(2 * (convites_row + 1 - FIRST_ROW)) |->
        CellValue(name, doc, FIRST_ROW + ((i - 1) \div 2),
                  IF i % 2 = 1 THEN COUNT_COLUMN ELSE VALUE_COLUMN)]

\* the loop "for row_num in range(24, convites_row + 1)" of process_excel_file
ExtractCategories(name, doc, ws, output_row, col_index, convites_row) ==
    LET values == CategoryValues(name, doc, convites_row)
    IN  [ws |-> WriteCells(ws, output_row, col_index, values, name),
         col_index |-> col_index + Len(values)]

\* SummarySourceRow without the custom offset of the observation entry
SummarySourceRowDefault(convites_row, summary_col_info) ==
    convites_row + SUMMARY_OFFSET

\* the source row of one entry of SUMMARY_COLUMNS
SummarySourceRow(convites_row, summary_col_info) ==
    IF summary_col_info.custom
    THEN convites_row + summary_col_info.offset
    ELSE convites_row + SUMMARY_OFFSET

\* the loop "for summary_col_info in SUMMARY_COLUMNS", entered at entry i
RECURSIVE ExtractSummary(_, _, _, _, _, _, _)
ExtractSummary(name, doc, ws, output_row, col_index, i, convites_row) ==
    IF i > Len(SUMMARY_COLUMNS)
    THEN [ws |-> ws, col_index |-> col_index]
    ELSE ExtractSummary(name, doc,
             WriteCell(ws, output_row, col_index,
                       CellValue(name, doc,
                                 SummarySourceRow(convites_row, SUMMARY_COLUMNS[i]),
                                 SUMMARY_COLUMNS[i].col),
                       name),
             output_row, col_index + 1, i + 1, convites_row)

\* result of process_excel_file: ok = FALSE when it raises ValueError; ws is
\* the worksheet as the call leaves it
process_excel_file(name, doc, ws, output_row) ==
    IF ~doc.sheet
    THEN [ok |-> FALSE, error |-> "sheet", ws |-> ws, convites_row |-> 0,
          col_index |-> 1]
    ELSE LET static == ExtractStatic(name, doc, ws, output_row, 1, 1)
             convites_row == ExtractConvitesRow(doc)
         IN  IF convites_row = 0
             THEN [ok |-> FALSE, error |-> "convites", ws |-> static.ws,
                   convites_row |-> 0, col_index |-> static.col_index]
             ELSE LET dyn == ExtractCategories(name, doc, static.ws, output_row,
                                 static.col_index, convites_row)
                      sum == ExtractSummary(name, doc, dyn.ws, output_row,
                                 dyn.col_index, 1, convites_row)
                  IN  [ok |-> TRUE, error |-> "", ws |-> sum.ws,
                       convites_row |-> convites_row,
                       col_index |-> sum.col_index]

(***************************************************************************)
(* GeraProposta.py, the variant with the fixed list of cells.              *)
(***************************************************************************)
\* a cell reference of ITEMS_TO_EXTRACT; row 0 stands for None
CellRef(row, col) == [row |-> row, col |-> col]

\* ITEMS_TO_EXTRACT: F1, F5, None, None, F7, F3, F15, F13, F9, F11, F17, then
\* D24, E24, ..., D48, E48, then D49, F51, H51, J51, D51, E51, B54
ITEMS_TO_EXTRACT ==
    << CellRef(1, 6), CellRef(5, 6), CellRef(0, 0), CellRef(0, 0),
       CellRef(7, 6), CellRef(3, 6), CellRef(15, 6), CellRef(13, 6),
       CellRef(9, 6), CellRef(11, 6), CellRef(17, 6) >>
    \o [i \in 1..50 |-> CellRef(24 + ((i - 1) \div 2),
                                 IF i % 2 = 1 THEN 4 ELSE 5)]
    \o << CellRef(49, 4), CellRef(51, 6), CellRef(51, 8), CellRef(51, 10),
          CellRef(51, 4), CellRef(51, 5), CellRef(54, 2) >>

\* the items of the loop "for col_index, item in enumerate(ITEMS_TO_EXTRACT,
\* start=1)" that are not None, and the value extract_cell_value reads
ItemColumns(items) == { i \in DOMAIN items : items[i].row # 0 }
ItemValue(name, doc, item) == CellValue(name, doc, item.row, item.col)

\* The worksheet after that loop.  Every item writes its own column: the
\* formatted date when the value is a datetime, the value otherwise.  The
\* columns 3 and 4 belong to no item; every datetime writes its month and
\* weekday there, so they hold those of the last datetime in list order.
ExtractItems(name, doc, ws, output_row, items) ==
    LET Written(i) ==
            LET value == ItemValue(name, doc, items[i])
            IN  IF value.k = "datetime"
                THEN Str(format_date_value(value))
                ELSE value
        dated == { i \in ItemColumns(items) :
                     ItemValue(name, doc, items[i]).k = "datetime" }
        own == [i \in 1..Len(items) |->
                   IF i \in ItemColumns(items) THEN Written(i) ELSE None]
        cells == WriteCells(ws, output_row, 1, own, name)
        kept == [at \in { x \in DOMAIN cells :
                            x[1] # output_row \/ x[2] \in ItemColumns(items)
                            \/ x \in DOMAIN ws } |-> cells[at]]
    IN  IF dated = {}
        THEN kept
        ELSE LET last == CHOOSE i \in dated : \A j \in dated : j <= i
                 value == ItemValue(name, doc, items[last])
             IN  WriteCell(
                     WriteCell(kept, output_row, MONTH_COLUMN,
                               Str(MonthName(value)), name),
                     output_row, WEEKDAY_COLUMN, Str(WeekdayName(value)), name)

\* process_excel_file of GeraProposta.py: the worksheet as the call leaves
\* it; without the sheet it prints a warning and returns
GeraProposta_process_excel_file(name, doc, ws, output_row) ==
    IF ~doc.sheet
    THEN ws
    ELSE ExtractItems(name, doc, ws, output_row, ITEMS_TO_EXTRACT)

(***************************************************************************)
(* The input folders the model starts from.                                *)
(***************************************************************************)
NoLabels == [r \in {} |-> None]
NoDates == [r \in {} |-> None]
EventDate == [r \in {5} |-> DateTime(2024, 1, 15)]

\* a workbook whose first "Convites" label is at row convites_row, with the
\* category names of the rows in blank empty
Bordereau(convites_row, blank, dates, empty) ==
    Entry("xlsx", TRUE,
          [r \in {convites_row} \cup blank |->
              IF r = convites_row THEN CONVITES ELSE None],
          dates, empty)

\* the documents of the runs over several files: one without the sheet, one
\* without the "Convites" row, one with a single category row, and one with
\* two category rows, the first unnamed, whose date (F5) and title (F3) cells
\* are empty
SmallDocs ==
    { Entry("xlsx", FALSE, NoLabels, EventDate, {}),
      Entry("xlsx", TRUE, NoLabels, EventDate, {}),
      Bordereau(24, {}, EventDate, {}),
      Bordereau(25, {24}, NoDates, {<<5, 6>>, <<3, 6>>}) }

Folders == UNION { [1..n -> SmallDocs] : n \in 0..MaxFiles }

\* the documents of the runs that probe one document: up to MaxMarks cells of the
\* label column around the bounds of the scan hold the marker, a near miss,
\* nothing, the empty string or the number 0 ...
MarkRows == {23, 24, 25, 40, 99, 100}
MarkValues == {CONVITES, Str("convites"), None, Str(""), Num(0)}

MarkedDocs ==
    { Entry("xlsx", TRUE, labels, EventDate, {}) :
        labels \in UNION { [rows -> MarkValues] :
                             rows \in { m \in SUBSET MarkRows :
                                          Cardinality(m) <= MaxMarks } } }

\* ... or the static cells F1, F5 and F17 hold dates or other scalars, and
\* the first count cell and the first summary cell may be empty
Dates ==
    { DateTime(2024, 1, 15), DateTime(2024, 2, 29), DateTime(2023, 12, 31),
      DateTime(2025, 3, 1) }
DateRows == {1, 5, 17}

DatedDocs ==
    { Bordereau(24, {}, dates, empty) :
        dates \in UNION { [rows -> Dates] : rows \in SUBSET DateRows },
        empty \in { {}, {<<24, 4>>, <<26, 6>>} } }

OtherEntries ==
    { Entry("lock", TRUE, NoLabels, EventDate, {}),
      Entry("other", TRUE, NoLabels, EventDate, {}),
      Entry("xlsx", FALSE, NoLabels, EventDate, {}) }

\* the folders of these runs: empty, a single entry, or a marked document
\* next to an ordinary one
DocFolders ==
    {<<>>}
    \cup { <<d>> : d \in MarkedDocs \cup DatedDocs \cup OtherEntries }
    \cup { <<Bordereau(24, {}, EventDate, {}), d>> : d \in MarkedDocs }

\* the documents of the sessions with several runs over one folder: two
\* documents whose headers differ (one category row, two named category
\* rows) and one without the "Convites" row
RunDocs ==
    { Bordereau(24, {}, EventDate, {}),
      Bordereau(25, {}, NoDates, {}),
      Entry("xlsx", TRUE, NoLabels, EventDate, {}) }

RunFolders == UNION { [1..n -> RunDocs] : n \in 0..2 }

\* the documents both variants are run on: the "Convites" label in row 49,
\* the layout of ITEMS_TO_EXTRACT, or in a row next to it; a date in F5, in
\* the summary cell F51, in both or in neither; the cells E49 or F51 empty
VariantDocs ==
    { Bordereau(convites_row, {}, dates, empty) :
        convites_row \in {48, 49, 50},
        dates \in UNION { [rows -> {DateTime(2024, 2, 29)}] :
                            rows \in SUBSET {5, 51} },
        empty \in { {}, {<<49, 5>>}, {<<51, 6>>} } }
    \cup { Entry("xlsx", FALSE, NoLabels, EventDate, {}) }

VariantFolders == { <<d>> : d \in VariantDocs }

\* a report left in the output path by an earlier session
OldReport == [x \in {<<1, 1>>} |-> [value |-> Str("Nº Registo"), src |-> 0]]

(***************************************************************************)
(* State.                                                                  *)
(***************************************************************************)
VARIABLES
    folder,           \* the entries of the input folder, by name
    output_path,      \* the output file: [exists, content]
    processing,       \* self.processing
    process_btn,      \* state of self.process_btn
    progress,         \* whether self.progress is running
    pc,               \* position of the worker in process_files
    excel_files,      \* the names iterdir produced, filtered
    schema_file,      \* the name generate_headers was called with, 0 before
    header_columns,   \* the labels generate_headers returned
    schema_row,       \* convites_row of generate_headers
    output_ws,        \* the worksheet of the output workbook
    output_row,
    processed_count,
    error_count,
    next_file,        \* position of the for loop in sorted(excel_files)
    log,              \* one record per document attempted in this run
    messagebox,       \* the dialog the run ended with
    clicks,           \* the presses of the start button still to come
    stopping,         \* workers that have yet to call self.progress.stop()
    earlier_report,   \* the report the first saving run wrote: [exists, content]
    static_run        \* GeraProposta.py: the file its process_excel_file was
                      \* called with (0 before) and the worksheet it left

vars ==
    << folder, output_path, processing, process_btn, progress, pc,
       excel_files, schema_file, header_columns, schema_row, output_ws, output_row,
       processed_count, error_count, next_file, log, messagebox, clicks,
       stopping, earlier_report, static_run >>

gui == << processing, process_btn, progress >>
run == << clicks, stopping, earlier_report, static_run >>
locals ==
    << excel_files, schema_file, header_columns, schema_row, output_ws,
       output_row, processed_count, error_count, next_file, log >>

InitWith(folders, presses) ==
    /\ folder \in folders
    /\ clicks = presses
    /\ stopping = 0
    /\ earlier_report = [exists |-> FALSE, content |-> EmptySheet]
    /\ static_run = [file |-> 0, ws |-> EmptySheet]
    /\ output_path \in { [exists |-> FALSE, content |-> EmptySheet],
                         [exists |-> TRUE, content |-> OldReport] }
    /\ processing = FALSE
    /\ process_btn = "normal"
    /\ progress = "stopped"
    /\ pc = "idle"
    /\ excel_files = <<>>
    /\ schema_file = 0
    /\ header_columns = <<>>
    /\ schema_row = 0
    /\ output_ws = EmptySheet
    /\ output_row = FIRST_OUTPUT_ROW
    /\ processed_count = 0
    /\ error_count = 0
    /\ next_file = 1
    /\ log = <<>>
    /\ messagebox = "none"

\* one press of the start button
Init == InitWith(Folders, 1)

InitDocs == InitWith(DocFolders, 1)

\* up to MaxStarts presses of the start button
InitRuns == InitWith(RunFolders, MaxStarts)

\* one press, and one run of GeraProposta.py over the same folder
InitVariants == InitWith(VariantFolders, 1)

\* StartProcessing that neither tests self.processing nor disables the button
StartProcessingUnguarded ==
    /\ clicks > 0
    /\ process_btn = "normal"
    /\ clicks' = clicks - 1
    /\ processing' = TRUE
    /\ progress' = "running"
    /\ pc' = "unlink"
    /\ excel_files' = <<>>
    /\ schema_file' = 0
    /\ header_columns' = <<>>
    /\ schema_row' = 0
    /\ output_ws' = EmptySheet
    /\ output_row' = FIRST_OUTPUT_ROW
    /\ processed_count' = 0
    /\ error_count' = 0
    /\ next_file' = 1
    /\ log' = <<>>
    /\ messagebox' = "none"
    /\ UNCHANGED << folder, output_path, process_btn, stopping, earlier_report,
                    static_run >>

(***************************************************************************)
(* start_processing, the command of the start button: a press reaches it   *)
(* only while the button is enabled.  The input folder exists and the      *)
(* output name is not blank.  With self.processing set it shows a warning  *)
(* and returns; otherwise it sets the flag, disables the button, starts    *)
(* the progress bar and starts the worker thread, whose variables are      *)
(* fresh.                                                                  *)
(***************************************************************************)
StartProcessing ==
    /\ clicks > 0
    /\ process_btn = "normal"
    /\ clicks' = clicks - 1
    /\ IF processing
       THEN UNCHANGED << gui, pc, locals, messagebox >>
       ELSE /\ processing' = TRUE
            /\ process_btn' = "disabled"
            /\ progress' = "running"
            /\ pc' = "unlink"
            /\ excel_files' = <<>>
            /\ schema_file' = 0
            /\ header_columns' = <<>>
            /\ schema_row' = 0
            /\ output_ws' = EmptySheet
            /\ output_row' = FIRST_OUTPUT_ROW
            /\ processed_count' = 0
            /\ error_count' = 0
            /\ next_file' = 1
            /\ log' = <<>>
            /\ messagebox' = "none"
    /\ UNCHANGED << folder, output_path, stopping, earlier_report, static_run >>

(***************************************************************************)
(* process_files, step by step.                                            *)
(***************************************************************************)
\* RemoveOutput leaving the file in place
RemoveOutputKeepingFile ==
    /\ pc = "unlink"
    /\ output_path.exists
    /\ pc' = "enumerate"
    /\ UNCHANGED << folder, output_path, gui, locals, messagebox, run >>

\* output_path.unlink() succeeds
RemoveOutput ==
    /\ pc = "unlink"
    /\ output_path.exists
    /\ output_path' = [exists |-> FALSE, content |-> EmptySheet]
    /\ pc' = "enumerate"
    /\ UNCHANGED << folder, gui, locals, messagebox, run >>

\* output_path.unlink() raises FileNotFoundError
OutputMissing ==
    /\ pc = "unlink"
    /\ ~output_path.exists
    /\ pc' = "enumerate"
    /\ UNCHANGED << folder, output_path, gui, locals, messagebox, run >>

\* OutputDenied without the return: the run goes on after the dialog
OutputDeniedContinues ==
    /\ pc = "unlink"
    /\ output_path.exists
    /\ messagebox' = "permission"
    /\ pc' = "enumerate"
    /\ UNCHANGED << folder, output_path, gui, locals, run >>

\* OutputDenied with the return outside the try block, its finally clause
\* not run
OutputDeniedNoCleanup ==
    /\ pc = "unlink"
    /\ output_path.exists
    /\ messagebox' = "permission"
    /\ pc' = "idle"
    /\ UNCHANGED << folder, output_path, gui, locals, run >>

\* output_path.unlink() raises PermissionError: return
OutputDenied ==
    /\ pc = "unlink"
    /\ output_path.exists
    /\ messagebox' = "permission"
    /\ pc' = "finally"
    /\ UNCHANGED << folder, output_path, gui, locals, run >>

\* output_path.unlink() raises another OSError (read-only file system, busy
\* file): the handler "except Exception" of process_files
OutputError ==
    /\ pc = "unlink"
    /\ output_path.exists
    /\ messagebox' = "fatal"
    /\ pc' = "finally"
    /\ UNCHANGED << folder, output_path, gui, locals, run >>

\* the orders in which iterdir can produce the entries of the folder
Enumerations(f) ==
    { order \in [1..Len(f) -> 1..Len(f)] :
        \A i, j \in 1..Len(f) : order[i] = order[j] => i = j }

\* the filter of the list comprehension: suffix ".xlsx", no "~$" prefix
IsExcelFile(entry) == entry.kind = "xlsx"

\* openpyxl.Workbook(), the list of files, and the return when it is empty
FindFiles ==
    /\ pc = "enumerate"
    /\ output_ws' = EmptySheet
    /\ \E order \in Enumerations(folder) :
          excel_files' = SelectSeq(order, LAMBDA n : IsExcelFile(folder[n]))
    /\ IF excel_files' = <<>>
       THEN messagebox' = "nofiles" /\ pc' = "finally"
       ELSE messagebox' = messagebox /\ pc' = "headers"
    /\ UNCHANGED << folder, output_path, gui, schema_file, header_columns,
                    schema_row, output_row, processed_count, error_count,
                    next_file, log, run >>

\* the file whose headers are generated
SchemaFile(files) == files[1]

\* generate_headers(excel_files[0]) and output_ws.append(header_columns), or
\* the return when either raises; then the initialisation of the counters
GenerateHeaders ==
    /\ pc = "headers"
    /\ schema_file' = SchemaFile(excel_files)
    /\ LET r == generate_headers(folder[SchemaFile(excel_files)])
       IN  IF r.ok
           THEN /\ header_columns' = r.headers
                /\ schema_row' = r.convites_row
                /\ output_ws' = AppendRow(output_ws, 1, r.headers)
                /\ output_row' = FIRST_OUTPUT_ROW
                /\ processed_count' = 0
                /\ error_count' = 0
                /\ next_file' = 1
                /\ log' = <<>>
                /\ pc' = "loop"
                /\ messagebox' = messagebox
           ELSE /\ messagebox' = "headers"
                /\ pc' = "finally"
                /\ UNCHANGED << header_columns, schema_row, output_ws,
                                output_row, processed_count, error_count,
                                next_file, log >>
    /\ UNCHANGED << folder, output_path, gui, excel_files, run >>

\* sorted(excel_files)
Sorted(files) == SortSeq(files, LAMBDA a, b : a < b)

\* Tally with output_row += 1 moved out of the try block
TallyAdvancingAlways(ok, row, processed, errors) ==
    IF ok
    THEN [output_row |-> row + 1, processed_count |-> processed + 1,
          error_count |-> errors]
    ELSE [output_row |-> row + 1, processed_count |-> processed,
          error_count |-> errors + 1]

\* the counters after one document: the try block ends with output_row += 1
\* and processed_count += 1, the except block with error_count += 1
Tally(ok, row, processed, errors) ==
    IF ok
    THEN [output_row |-> row + 1, processed_count |-> processed + 1,
          error_count |-> errors]
    ELSE [output_row |-> row, processed_count |-> processed,
          error_count |-> errors + 1]

\* one iteration of "for excel_file in sorted(excel_files)"
ProcessFile ==
    /\ pc = "loop"
    /\ next_file <= Len(excel_files)
    /\ LET name == Sorted(excel_files)[next_file]
           r == process_excel_file(name, folder[name], output_ws, output_row)
       IN  /\ output_ws' = r.ws
           /\ output_row' =
                  Tally(r.ok, output_row, processed_count, error_count).output_row
           /\ processed_count' =
                  Tally(r.ok, output_row, processed_count, error_count).processed_count
           /\ error_count' =
                  Tally(r.ok, output_row, processed_count, error_count).error_count
           /\ log' = Append(log, [file |-> name, ok |-> r.ok,
                                  row |-> output_row,
                                  convites_row |-> r.convites_row,
                                  col_index |-> r.col_index])
    /\ next_file' = next_file + 1
    /\ UNCHANGED << folder, output_path, gui, pc, excel_files, schema_file,
                    header_columns, schema_row, messagebox, run >>

\* SaveOutput leaving the loop one document early
SaveOutputEarly ==
    /\ pc = "loop"
    /\ next_file >= Len(excel_files)
    /\ output_path' = [exists |-> TRUE, content |-> output_ws]
    /\ messagebox' = "success"
    /\ pc' = "finally"
    /\ earlier_report' =
           IF earlier_report.exists THEN earlier_report ELSE output_path'
    /\ UNCHANGED << folder, gui, locals, clicks, stopping, static_run >>

\* output_wb.save(output_path) and the final dialog
SaveOutput ==
    /\ pc = "loop"
    /\ next_file > Len(excel_files)
    /\ output_path' = [exists |-> TRUE, content |-> output_ws]
    /\ messagebox' = "success"
    /\ pc' = "finally"
    /\ earlier_report' =
           IF earlier_report.exists THEN earlier_report ELSE output_path'
    /\ UNCHANGED << folder, gui, locals, clicks, stopping, static_run >>

\* the finally clause, first statement: self.processing = False
Finally ==
    /\ pc = "finally"
    /\ processing' = FALSE
    /\ pc' = "enable"
    /\ UNCHANGED << folder, output_path, process_btn, progress, locals,
                    messagebox, run >>

\* second statement: self.process_btn.config(state="normal"); what is left
\* of the worker is its call of self.progress.stop()
EnableButton ==
    /\ pc = "enable"
    /\ process_btn' = "normal"
    /\ pc' = "idle"
    /\ stopping' = stopping + 1
    /\ UNCHANGED << folder, output_path, processing, progress, locals,
                    messagebox, clicks, earlier_report, static_run >>

\* third statement: self.progress.stop(), by a worker that has enabled the
\* button
StopProgress ==
    /\ stopping > 0
    /\ progress' = "stopped"
    /\ stopping' = stopping - 1
    /\ UNCHANGED << folder, output_path, processing, process_btn, pc, locals,
                    messagebox, clicks, earlier_report, static_run >>

Next ==
    \/ StartProcessing
    \/ RemoveOutput
    \/ OutputMissing
    \/ OutputDenied
    \/ OutputError
    \/ FindFiles
    \/ GenerateHeaders
    \/ ProcessFile
    \/ SaveOutput
    \/ Finally
    \/ EnableButton
    \/ StopProgress

Spec == Init /\ [][Next]_vars

SpecDocs == InitDocs /\ [][Next]_vars

\* GeraProposta.py, main: process_excel_file(excel_file, output_ws,
\* output_row) on a file of the folder, the worksheet being fresh
StaticProcessFile ==
    /\ static_run.file = 0
    /\ \E name \in DOMAIN folder :
          /\ IsExcelFile(folder[name])
          /\ static_run' =
                 [file |-> name,
                  ws |-> GeraProposta_process_excel_file(
                             name, folder[name], EmptySheet, FIRST_OUTPUT_ROW)]
    /\ UNCHANGED << folder, output_path, gui, pc, locals, messagebox, clicks,
                    stopping, earlier_report >>

\* both programs run over the folder
NextVariants ==
    \/ Next
    \/ StaticProcessFile

SpecVariants == InitVariants /\ [][NextVariants]_vars

\* the variables only the worker thread advances: its position, the index
\* of the loop, and the calls of self.progress.stop() still to come
worker == << pc, next_file, stopping >>

\* A step of the worker thread, told by these variables.  Under Next these
\* are the steps of RemoveOutput, OutputMissing, OutputDenied, OutputError,
\* FindFiles, GenerateHeaders, ProcessFile, SaveOutput, Finally, EnableButton
\* and StopProgress, and one of them is enabled exactly when pc # "idle" or
\* stopping > 0.
WorkerStep ==
    \/ /\ pc # "idle"
       /\ pc' \in {"enumerate", "headers", "loop", "finally", "enable", "idle"}
       /\ pc' # pc
       /\ next_file' \in {next_file, 1}
       /\ stopping' \in {stopping, stopping + 1}
    \/ /\ pc = "loop"
       /\ pc' = pc
       /\ next_file' = next_file + 1
       /\ stopping' = stopping
    \/ /\ stopping > 0
       /\ pc' = pc
       /\ next_file' = next_file
       /\ stopping' = stopping - 1

\* the worker thread runs until process_files returns, every dialog being
\* dismissed
SpecRuns == InitRuns /\ [][Next]_vars /\ WF_worker(WorkerStep)

(***************************************************************************)
(* Properties.                                                             *)
(***************************************************************************)
\* the run has saved its report
Saved == messagebox = "success"

\* the documents whose extraction raised, and the records of the others
FailedFiles == { log[i].file : i \in { j \in DOMAIN log : ~log[j].ok } }
Succeeded == SelectSeq(log, LAMBDA e : e.ok)

\* the last column of a row of the worksheet ws that has a cell
LastColumn(ws, row) ==
    LET cols == { at[2] : at \in { x \in DOMAIN ws : x[1] = row } }
    IN  IF cols = {} THEN 0 ELSE CHOOSE c \in cols : \A d \in cols : d <= c

\* the label column of doc holds "Convites" somewhere in rows 24..99
HasSentinel(doc) ==
    \E r \in 24..99 : CellValue(0, doc, r, 2) = Str("Convites")

\* C1: the row of every successfully extracted document occupies as many
\* columns as the header has labels.
C1_RowWidthEqualsHeaderWidth ==
    \A i \in DOMAIN log :
        log[i].ok =>
            /\ log[i].col_index - 1 = Len(header_columns)
            /\ LastColumn(output_ws, log[i].row) = LastColumn(output_ws, 1)

\* C2: in the saved report no cell holds a value read from a document whose
\* extraction failed.
C2_FailedDocumentLeavesNoValue ==
    Saved =>
        \A at \in DOMAIN output_path.content :
            output_path.content[at].value # None =>
                output_path.content[at].src \notin FailedFiles

\* C3: the headers are generated from the first file of the sorted order, so
\* the run ends with the header error exactly when that file has no sheet or
\* no "Convites" row.
C3_SchemaFromFirstSortedFile ==
    schema_file # 0 =>
        /\ schema_file = Sorted(excel_files)[1]
        /\ messagebox = "headers" <=>
               \/ ~folder[Sorted(excel_files)[1]].sheet
               \/ ~HasSentinel(folder[Sorted(excel_files)[1]])

\* C4: in the saved report the rows 2..N are the successfully extracted
\* documents, one row each without gaps, in ascending order of file name, and
\* no other row holds a value.
C4_RowsAreTheSucceededInOrder ==
    Saved =>
        /\ \A i \in DOMAIN Succeeded : Succeeded[i].row = i + 1
        /\ \A i, j \in DOMAIN Succeeded :
               i < j => Succeeded[i].file < Succeeded[j].file
        /\ \A at \in DOMAIN output_path.content :
               (at[1] >= 2 /\ output_path.content[at].value # None) =>
                   /\ at[1] <= Len(Succeeded) + 1
                   /\ output_path.content[at].src = Succeeded[at[1] - 1].file

\* C5: after the headers were generated every file of the sorted list is
\* attempted once, in order; the output row is 2 + the number of successes
\* at every step; the run ends only by saving the report, and then successes
\* + failures = number of input files.
C5_RunCompletesAfterDiscovery ==
    /\ schema_row # 0 =>
           /\ output_row = 2 + processed_count
           /\ processed_count = Len(Succeeded)
           /\ processed_count + error_count = Len(log)
           /\ Len(log) <= Len(excel_files)
           /\ \A i \in DOMAIN log : log[i].file = Sorted(excel_files)[i]
    /\ (schema_row # 0 /\ pc \in {"finally", "enable", "idle"}) =>
           /\ Saved
           /\ output_path = [exists |-> TRUE, content |-> output_ws]
           /\ processed_count + error_count = Len(excel_files)

C5_Witness ==
    /\ pc = "finally"
    /\ Saved
    /\ Len(log) = 3
    /\ log[1].ok /\ ~log[2].ok /\ log[3].ok
    /\ processed_count = 2 /\ error_count = 1 /\ output_row = 4

\* C6: when the file the headers are generated from has no sheet or no
\* "Convites" row in rows 24..99 the run ends with no document attempted, an
\* empty worksheet and no output file; a report is saved only when that file
\* has both.
C6_DiscoveryFailureAborts ==
    /\ (schema_file # 0
        /\ (~folder[schema_file].sheet \/ ~HasSentinel(folder[schema_file]))) =>
           /\ messagebox = "headers"
           /\ pc \in {"finally", "enable", "idle"}
           /\ log = <<>>
           /\ output_ws = EmptySheet
           /\ ~output_path.exists
    /\ Saved =>
           /\ schema_file # 0
           /\ folder[schema_file].sheet
           /\ HasSentinel(folder[schema_file])
           /\ LastColumn(output_path.content, 1) >= 17

C6_Witness ==
    /\ messagebox = "headers"
    /\ pc = "idle"
    /\ Len(excel_files) >= 2
    /\ \E n \in DOMAIN folder : folder[n].sheet /\ HasSentinel(folder[n])
    /\ ~output_path.exists

\* the label of row r of doc, and whether the cell is empty
Label(doc, r) == CellValue(0, doc, r, 2)
NonEmpty(v) == v # None /\ v # Str("")

\* r is the first row of 24..99 whose label is exactly "Convites"
IsSentinelRow(doc, r) ==
    /\ r \in 24..99
    /\ Label(doc, r) = Str("Convites")
    /\ \A q \in 24..(r - 1) : Label(doc, q) # Str("Convites")

\* C7: the header generated from a document with sentinel row s and k
\* non-empty category names in rows 24..s is the 11 static labels, the pair
\* (name, "Valor " + name) of every non-empty name in row order, and the 6
\* summary labels: 11 + 2k + 6 labels.
C7_HeaderHasPairPerNonEmptyName ==
    schema_row # 0 =>
        LET doc == folder[schema_file]
            named == { r \in 24..schema_row : NonEmpty(Label(doc, r)) }
            k == Cardinality(named)
        IN  /\ IsSentinelRow(doc, schema_row)
            /\ Len(header_columns) = 11 + 2 * k + 6
            /\ \A i \in 1..11 : header_columns[i] = Str(STATIC_HEADER_COLUMNS[i])
            /\ \A i \in 1..6 :
                   header_columns[11 + 2 * k + i] = Str(SUMMARY_HEADER_COLUMNS[i])
            /\ \A r \in named :
                   LET j == Cardinality({ q \in named : q <= r })
                   IN  /\ header_columns[11 + 2 * j - 1] = Label(doc, r)
                       /\ header_columns[11 + 2 * j] =
                              Str("Valor " \o PyStr(Label(doc, r)))

\* C8: generate_headers and process_excel_file both find the first row of
\* 24..99 whose label is exactly "Convites", fail when there is none, and
\* agree on the same document.
C8_SentinelIsFirstMatchInRange ==
    /\ (schema_file # 0 /\ folder[schema_file].sheet) =>
           IF HasSentinel(folder[schema_file])
           THEN IsSentinelRow(folder[schema_file], schema_row)
           ELSE schema_row = 0 /\ messagebox = "headers"
    /\ \A i \in DOMAIN log :
           folder[log[i].file].sheet =>
               /\ IF HasSentinel(folder[log[i].file])
                  THEN log[i].ok
                       /\ IsSentinelRow(folder[log[i].file], log[i].convites_row)
                  ELSE ~log[i].ok /\ log[i].convites_row = 0
               /\ log[i].file = schema_file => log[i].convites_row = schema_row

C8_Witness ==
    /\ schema_row = 25
    /\ Label(folder[schema_file], 24) = Str("convites")
    /\ \E i \in DOMAIN log :
           log[i].file = schema_file /\ log[i].ok /\ log[i].convites_row = 25

\* C9: the last six columns of an extracted row hold, in this order, the cells
\* F, H, J, D, E of row s + 2 and the cell B of row s + 5, s being the
\* sentinel row of the document.
C9_SummaryAtOffsets ==
    \A i \in DOMAIN log :
        log[i].ok =>
            LET name == log[i].file
                s == log[i].convites_row
                w == log[i].col_index - 1
                expected == << CellValue(name, folder[name], s + 2, 6),
                               CellValue(name, folder[name], s + 2, 8),
                               CellValue(name, folder[name], s + 2, 10),
                               CellValue(name, folder[name], s + 2, 4),
                               CellValue(name, folder[name], s + 2, 5),
                               CellValue(name, folder[name], s + 5, 2) >>
            IN  /\ s \in 24..99
                /\ w = LastColumn(output_ws, log[i].row)
                /\ \A j \in 1..6 :
                       /\ <<log[i].row, w - 6 + j>> \in DOMAIN output_ws
                       /\ output_ws[<<log[i].row, w - 6 + j>>].value = expected[j]

C9_Witness ==
    \E i \in DOMAIN log :
        /\ log[i].ok
        /\ log[i].convites_row = 40
        /\ output_ws[<<log[i].row, log[i].col_index - 1>>].value = Str("B45")
        /\ output_ws[<<log[i].row, log[i].col_index - 6>>].value
               = Raw(log[i].file, 42, 6)

\* the formatted date, month name and weekday name of the dates of the model
DateOracle(d) ==
    CASE d = DateTime(2024, 1, 15) -> <<"15-01-2024", "Janeiro", "Segunda-feira">>
      [] d = DateTime(2024, 2, 29) -> <<"29-02-2024", "Fevereiro", "Quinta-feira">>
      [] d = DateTime(2023, 12, 31) -> <<"31-12-2023", "Dezembro", "Domingo">>
      [] d = DateTime(2025, 3, 1) -> <<"01-03-2025", "Março", "Sábado">>

\* the output column of the static cell F<row>
StaticColumnOf(row) ==
    CASE row = 1 -> 1 [] row = 5 -> 2 [] row = 7 -> 5 [] row = 3 -> 6
      [] row = 15 -> 7 [] row = 13 -> 8 [] row = 9 -> 9 [] row = 11 -> 10
      [] row = 17 -> 11

\* C10: a static cell holding a date d is written as "DD-MM-YYYY" in its own
\* column, and columns 3 and 4 hold the month name and the weekday name of
\* the date of the last such cell in column order; the month and weekday
\* indexes are within the tables.
C10_DateDecomposition ==
    \A i \in DOMAIN log :
        log[i].ok =>
            LET name == log[i].file
                dated == { r \in DOMAIN folder[name].dates :
                             <<r, 6>> \notin folder[name].empty }
                last == CHOOSE r \in dated :
                            \A q \in dated : StaticColumnOf(q) <= StaticColumnOf(r)
                Out(col) == output_ws[<<log[i].row, col>>].value
            IN  /\ \A r \in dated :
                       /\ Out(StaticColumnOf(r)) =
                              Str(DateOracle(folder[name].dates[r])[1])
                       /\ folder[name].dates[r].b - 1 \in 0..11
                       /\ Weekday(folder[name].dates[r]) \in 0..6
                /\ dated # {} =>
                       /\ Out(3) = Str(DateOracle(folder[name].dates[last])[2])
                       /\ Out(4) = Str(DateOracle(folder[name].dates[last])[3])

C10_Witness ==
    \E i \in DOMAIN log :
        /\ log[i].ok
        /\ DOMAIN folder[log[i].file].dates = {1, 17}
        /\ folder[log[i].file].dates[1] = DateTime(2024, 1, 15)
        /\ folder[log[i].file].dates[17] = DateTime(2023, 12, 31)
        /\ output_ws[<<log[i].row, 1>>].value = Str("15-01-2024")
        /\ output_ws[<<log[i].row, 11>>].value = Str("31-12-2023")
        /\ output_ws[<<log[i].row, 3>>].value = Str("Dezembro")
        /\ output_ws[<<log[i].row, 4>>].value = Str("Domingo")

\* the values of the cells of a worksheet, by position
Content(ws) ==
    LET filled == { at \in DOMAIN ws : ws[at].value # None }
    IN  [at \in filled |-> ws[at].value]

\* C11: two runs over the same folder save reports with the same content,
\* whatever the orders in which the folder was enumerated.
C11_RunsSaveTheSameReport ==
    (Saved /\ earlier_report.exists) =>
        Content(output_path.content) = Content(earlier_report.content)

\* the state of the run: Idle, Discovering (up to the generation of the
\* headers), Extracting (next_file - 1 documents attempted), Aborted or Done
Phase ==
    CASE pc = "idle" -> "Idle"
      [] pc \in {"unlink", "enumerate", "headers"} -> "Discovering"
      [] pc = "loop" -> "Extracting"
      [] pc \in {"finally", "enable"} -> IF Saved THEN "Done" ELSE "Aborted"

\* C12: a run goes Idle -> Discovering -> Aborted, or Idle -> Discovering ->
\* Extracting(0) -> Extracting(1) -> ... -> Done: the headers are generated
\* once, before any extraction; every step of the extraction attempts the
\* next document of the sorted list; nothing is attempted after Aborted or
\* Done, and no state goes back to Discovering.
C12_RunFollowsStateMachine ==
    [][ /\ Phase = "Idle" => Phase' \in {"Idle", "Discovering"}
        /\ Phase = "Discovering" =>
               /\ Phase' \in {"Discovering", "Aborted", "Extracting"}
               /\ log' = <<>>
               /\ Phase' = "Extracting" =>
                      /\ pc = "headers"
                      /\ schema_file' = excel_files[1]
                      /\ next_file' = 1
        /\ Phase = "Extracting" =>
               \/ /\ Phase' = "Extracting"
                  /\ next_file <= Len(excel_files)
                  /\ next_file' = next_file + 1
                  /\ Len(log') = Len(log) + 1
                  /\ SubSeq(log', 1, Len(log)) = log
                  /\ log'[Len(log')].file = Sorted(excel_files)[next_file]
               \/ /\ Phase' = "Done"
                  /\ next_file = Len(excel_files) + 1
                  /\ Len(log) = Len(excel_files)
                  /\ log' = log
        /\ Phase \in {"Aborted", "Done"} =>
               /\ Phase' \in {Phase, "Idle"}
               /\ log' = log
        /\ schema_file' # schema_file =>
               \/ pc = "headers" /\ schema_file = 0
               \/ Phase = "Idle" /\ schema_file' = 0
      ]_vars

C12_Witness ==
    /\ pc = "loop"
    /\ Len(excel_files) = 3
    /\ next_file = 3
    /\ Len(log) = 2
    /\ log[1].file = 1 /\ log[2].file = 2

\* a worker is between the start of process_files and its finally clause
InBody == pc \in {"unlink", "enumerate", "headers", "loop"}

Ready == ~processing /\ process_btn = "normal" /\ progress = "stopped"

\* C14: every started run ends, on each of its exit paths, with the flag
\* reset, the button enabled and the progress bar stopped.
C14_RunEndsReady ==
    /\ processing ~> (~processing /\ pc = "enable")
    /\ (messagebox = "permission") ~> Ready
    /\ (messagebox = "fatal") ~> Ready
    /\ (messagebox = "nofiles") ~> Ready
    /\ (messagebox = "headers") ~> Ready
    /\ (messagebox = "success") ~> Ready
    /\ processing ~> Ready

\* the second run of a session has ended with the unexpected exception and
\* both workers have finished
C14_Witness ==
    /\ Ready
    /\ pc = "idle"
    /\ messagebox = "fatal"
    /\ earlier_report.exists
    /\ clicks = 0
    /\ stopping = 0

\* C15: a run whose removal of the existing output file is denied ends there:
\* no entry of the folder is enumerated or read, no worksheet is created or
\* saved, and the output file stays as it was.
C15_DeniedRemovalTouchesNothing ==
    /\ [](messagebox = "permission" =>
             /\ pc \in {"finally", "enable", "idle"}
             /\ excel_files = <<>>
             /\ schema_file = 0
             /\ header_columns = <<>>
             /\ output_ws = EmptySheet
             /\ log = <<>>
             /\ output_path.exists)
    /\ [][ (messagebox' = "permission") => output_path' = output_path ]_vars

\* the second run of a session is denied the removal of the report the first
\* run saved
C15_Witness ==
    /\ messagebox = "permission"
    /\ pc = "idle"
    /\ earlier_report.exists
    /\ output_path = earlier_report
    /\ Len(folder) = 2

\* C16: the row of a document with sentinel row s holds the count (column D)
\* and the price (column E) of category row 24 + j in columns 12 + 2j and
\* 13 + 2j, for every j in 0..s-24, whatever the category name and the value
\* read, and its six summary values start in column 12 + 2(s - 23).
C16_CategoryPairsAtFixedColumns ==
    \A i \in DOMAIN log :
        log[i].ok =>
            LET name == log[i].file
                s == log[i].convites_row
                first_summary == 12 + 2 * (s - 23)
            IN  /\ \A j \in 0..(s - 24) :
                       /\ <<log[i].row, 12 + 2 * j>> \in DOMAIN output_ws
                       /\ <<log[i].row, 13 + 2 * j>> \in DOMAIN output_ws
                       /\ output_ws[<<log[i].row, 12 + 2 * j>>].value
                              = CellValue(name, folder[name], 24 + j, 4)
                       /\ output_ws[<<log[i].row, 13 + 2 * j>>].value
                              = CellValue(name, folder[name], 24 + j, 5)
                /\ log[i].col_index = first_summary + 6
                /\ output_ws[<<log[i].row, first_summary>>].value
                       = CellValue(name, folder[name], s + 2, 6)

\* a document whose row 24 has no category name and whose sentinel row is 25
C16_Witness ==
    \E i \in DOMAIN log :
        /\ log[i].ok
        /\ log[i].convites_row = 25
        /\ Label(folder[log[i].file], 24) = None
        /\ output_ws[<<log[i].row, 12>>].value = Raw(log[i].file, 24, 4)
        /\ output_ws[<<log[i].row, 15>>].value = Raw(log[i].file, 25, 5)
        /\ output_ws[<<log[i].row, 16>>].value = Raw(log[i].file, 27, 6)

\* C18: the document the headers were generated from is extracted
\* successfully in the same run, so a saved report counts at least one
\* success and has a data row.
C18_SavedReportHasDataRow ==
    /\ \A i \in DOMAIN log :
           (schema_row # 0 /\ log[i].file = schema_file) =>
               log[i].ok /\ log[i].convites_row = schema_row
    /\ Saved =>
           /\ \E i \in DOMAIN log : log[i].file = schema_file /\ log[i].ok
           /\ processed_count >= 1
           /\ LastColumn(output_path.content, 2) >= 17
           /\ \E at \in DOMAIN output_path.content :
                  at[1] = 2 /\ output_path.content[at].value # None

\* the report is saved with the schema document as the only success
C18_Witness ==
    /\ Saved
    /\ Len(excel_files) = 3
    /\ processed_count = 1
    /\ error_count = 2
    /\ \E i \in DOMAIN log : log[i].file = schema_file /\ log[i].ok

\* C19: from the enumeration of the folder until the report is saved no file
\* exists at the output path, so none exists after a run that ended with "no
\* files" or with the header error.
C19_OutputRemovedBeforeEnumeration ==
    /\ pc \in {"enumerate", "headers", "loop"} => ~output_path.exists
    /\ (excel_files # <<>> /\ ~Saved) => ~output_path.exists
    /\ messagebox \in {"nofiles", "headers"} => ~output_path.exists

\* the second run of a session ends with the header error: the report the
\* first run saved is gone
C19_Witness ==
    /\ messagebox = "headers"
    /\ pc = "idle"
    /\ earlier_report.exists
    /\ ~output_path.exists

\* C20: when no category name of rows 24..s of the schema document is empty,
\* the row of every successfully extracted document with the same sentinel
\* row s is as wide as the header, holds under the j-th pair of dynamic
\* labels the count and the price of row 24 + j, and holds the six summary
\* values under the six summary labels.
C20_RowsAlignWithHeader ==
    (/\ schema_row # 0
     /\ \A r \in 24..schema_row : NonEmpty(Label(folder[schema_file], r))) =>
        \A i \in DOMAIN log :
            (log[i].ok /\ log[i].convites_row = schema_row) =>
                LET name == log[i].file
                    Out(col) == output_ws[<<log[i].row, col>>].value
                    width == Len(header_columns)
                IN  /\ log[i].col_index - 1 = width
                    /\ LastColumn(output_ws, log[i].row) = width
                    /\ \A j \in 0..(schema_row - 24) :
                           /\ header_columns[12 + 2 * j] =
                                  Label(folder[schema_file], 24 + j)
                           /\ header_columns[13 + 2 * j] =
                                  Str("Valor " \o
                                      PyStr(Label(folder[schema_file], 24 + j)))
                           /\ Out(12 + 2 * j) =
                                  CellValue(name, folder[name], 24 + j, 4)
                           /\ Out(13 + 2 * j) =
                                  CellValue(name, folder[name], 24 + j, 5)
                    /\ \A k \in 1..6 :
                           /\ header_columns[width - 6 + k] =
                                  Str(SUMMARY_HEADER_COLUMNS[k])
                           /\ Out(width - 6 + k) =
                                  CellValue(name, folder[name],
                                      SummarySourceRow(schema_row,
                                                       SUMMARY_COLUMNS[k]),
                                      SUMMARY_COLUMNS[k].col)

\* C17: whenever the flag is set the button is disabled and the progress bar
\* is running.
C17_FlagImpliesDisabledAndRunning ==
    processing => (process_btn = "disabled" /\ progress = "running")

\* the values of row row of the worksheet ws, by column
RowContent(ws, row) ==
    LET filled == { at[2] : at \in { x \in DOMAIN ws :
                                       x[1] = row /\ ws[x].value # None } }
    IN  [col \in filled |-> ws[<<row, col>>].value]

\* C21: for a document with the sheet and the sentinel row 49, the row
\* GeraProposta_GUI.process_excel_file writes and the row
\* GeraProposta.process_excel_file writes hold the same values in the same
\* columns.
C21_VariantsWriteTheSameRow ==
    \A i \in DOMAIN log :
        (/\ log[i].ok
         /\ log[i].convites_row = 49
         /\ static_run.file = log[i].file) =>
            RowContent(output_ws, log[i].row)
                = RowContent(static_run.ws, FIRST_OUTPUT_ROW)

=============================================================================
